---------------------------- MODULE Spec2Model ----------------------------
(***************************************************************************)
(* A model of the Quaternion class of src/src/classes/quaternion.ts (the   *)
(* current version of the class, lines 339-776; src/dist holds its         *)
(* compiled form).                                                         *)
(*                                                                         *)
(* Numbers.  The class computes with IEEE doubles.  The model computes in  *)
(* exact arithmetic: a number is a finite sum of terms (n/d)*sqrt(r), r a  *)
(* square-free positive integer, or one of NaN, +Infinity, -Infinity.      *)
(* Sums of such terms are closed under +, - and *, and hold every value    *)
(* the class computes from rational fields with one Math.sqrt.  A value    *)
(* outside that set (a nested root) is the number Unrep; calls that would  *)
(* produce it are not taken.                                               *)
(***************************************************************************)
EXTENDS Integers, Sequences, FiniteSets, TLC

VARIABLES heap, last, budget, frame

vars == <<heap, last, budget, frame>>

(***************************************************************************)
(* Exact numbers                                                           *)
(***************************************************************************)
Abs(i) == IF i < 0 THEN -i ELSE i

RECURSIVE GCD(_, _)
GCD(a, b) == IF b = 0 THEN a ELSE GCD(b, a % b)

\* One term (n/d)*sqrt(r), in lowest terms; n # 0, d > 0.
TermBy(r, n, d, g) ==
    IF d < 0 THEN [r |-> r, n |-> -(n \div g), d |-> -(d \div g)]
    ELSE [r |-> r, n |-> n \div g, d |-> d \div g]

Term(r, n, d) == TermBy(r, n, d, GCD(Abs(n), Abs(d)))

Fin(S)  == [k |-> "fin", s |-> S]
NaN     == [k |-> "nan", s |-> {}]
PosInf  == [k |-> "inf", s |-> {}]
NegInf  == [k |-> "ninf", s |-> {}]
Unrep   == [k |-> "unrep", s |-> {}]

Zero == Fin({})
Rat(n, d) == IF n = 0 THEN Zero ELSE Fin({Term(1, n, d)})
Int2Num(n) == Rat(n, 1)
One == Int2Num(1)

IsFin(a)   == a.k = "fin"
IsNaN(a)   == a.k = "nan"
IsUnrep(a) == a.k = "unrep"
IsInf(a)   == a.k \in {"inf", "ninf"}
IsZero(a)  == a = Zero
IsRational(a) == IsFin(a) /\ \A t \in a.s : t.r = 1

\* The coefficient of sqrt(r) in the finite set of terms S, as <<n, d>>.
Coef(S, r) ==
    IF \E t \in S : t.r = r
    THEN LET t == CHOOSE u \in S : u.r = r IN <<t.n, t.d>>
    ELSE <<0, 1>>

Roots(S) == {t.r : t \in S}

\* a/b + c/d as a term of sqrt(r); its n is 0 when the sum is.
SumTerm(r, a, c) == Term(r, a[1] * c[2] + c[1] * a[2], a[2] * c[2])

SumTerms(S, T) ==
    {t \in {SumTerm(r, Coef(S, r), Coef(T, r)) : r \in Roots(S) \cup Roots(T)} : t.n # 0}

NegTerms(S) == {[r |-> t.r, n |-> -t.n, d |-> t.d] : t \in S}

\* (n1/d1)sqrt(r1) * (n2/d2)sqrt(r2): with g = gcd(r1, r2), r1*r2 = g^2 * (r1/g)(r2/g)
\* and (r1/g)(r2/g) is square-free.
MulTermBy(t, u, g, g1, g2) ==
    Term((t.r \div g) * (u.r \div g),
         (t.n \div g1) * (u.n \div g2) * g,
         (t.d \div g2) * (u.d \div g1))

MulTerm(t, u) == MulTermBy(t, u, GCD(t.r, u.r), GCD(Abs(t.n), u.d), GCD(Abs(u.n), t.d))

\* t * T for one term t and a set of terms T whose roots stay distinct
\* (multiplying by one term keeps distinct roots distinct).
ScaleTerms(t, T) == {MulTerm(t, u) : u \in T}

RECURSIVE MulTerms(_, _)
MulTermsAt(t, S, T) == SumTerms(ScaleTerms(t, T), MulTerms(S \ {t}, T))

MulTerms(S, T) ==
    IF S = {} \/ T = {} THEN {}
    ELSE MulTermsAt(CHOOSE u \in S : TRUE, S, T)

\* The sign of a finite sum of terms: -1, 0 or 1.  Decided for sums whose
\* terms agree in sign and for two terms of opposite sign (compare squares).
SignTerms(S) ==
    IF S = {} THEN 0
    ELSE IF \A t \in S : t.n > 0 THEN 1
    ELSE IF \A t \in S : t.n < 0 THEN -1
    ELSE LET p == CHOOSE t \in S : t.n > 0
             m == CHOOSE t \in S : t.n < 0
             lhs == p.n * p.n * p.r * m.d * m.d
             rhs == m.n * m.n * m.r * p.d * p.d
         IN  IF Cardinality(S) = 2
             THEN (IF lhs > rhs THEN 1 ELSE -1)
             ELSE CHOOSE x \in {} : TRUE   \* not decided: no such value

Sign(a) ==
    CASE a.k = "fin"  -> SignTerms(a.s)
      [] a.k = "inf"  -> 1
      [] a.k = "ninf" -> -1

Neg(a) ==
    CASE a.k = "fin"  -> Fin(NegTerms(a.s))
      [] a.k = "inf"  -> NegInf
      [] a.k = "ninf" -> PosInf
      [] OTHER        -> a

Plus(a, b) ==
    CASE IsUnrep(a) \/ IsUnrep(b) -> Unrep
      [] IsNaN(a) \/ IsNaN(b)     -> NaN
      [] IsInf(a) /\ IsInf(b)     -> IF a = b THEN a ELSE NaN
      [] IsInf(a)                 -> a
      [] IsInf(b)                 -> b
      [] OTHER                    -> Fin(SumTerms(a.s, b.s))

Minus(a, b) == Plus(a, Neg(b))

Times(a, b) ==
    CASE IsUnrep(a) \/ IsUnrep(b) -> Unrep
      [] IsNaN(a) \/ IsNaN(b)     -> NaN
      [] IsInf(a) \/ IsInf(b)     ->
            IF IsZero(a) \/ IsZero(b) THEN NaN
            ELSE IF Sign(a) * Sign(b) > 0 THEN PosInf ELSE NegInf
      [] OTHER                    -> Fin(MulTerms(a.s, b.s))

\* 1 / ((n/d)sqrt(r)) = (d/(n*r)) sqrt(r)
InvTerm(t) == Term(t.r, t.d, t.n * t.r)

\* a / b.  A finite divisor of two or more terms is outside the model.
Over(a, b) ==
    CASE IsUnrep(a) \/ IsUnrep(b) -> Unrep
      [] IsNaN(a) \/ IsNaN(b)     -> NaN
      [] IsInf(a) /\ IsInf(b)     -> NaN
      [] IsInf(a)                 ->
            IF Sign(b) >= 0 THEN a ELSE Neg(a)
      [] IsInf(b)                 -> Zero
      [] IsZero(b)                ->
            IF IsZero(a) THEN NaN
            ELSE IF Sign(a) > 0 THEN PosInf ELSE NegInf
      [] Cardinality(b.s) = 1     ->
            Fin(ScaleTerms(InvTerm(CHOOSE t \in b.s : TRUE), a.s))
      [] OTHER                    -> Unrep

\* The largest s with s*s dividing m, found by trial from i upward.
RECURSIVE SquarePart(_, _)
SquarePart(m, i) ==
    IF i * i > m THEN 1
    ELSE IF m % (i * i) = 0 THEN i * SquarePart(m \div (i * i), i)
    ELSE SquarePart(m, i + 1)

\* Math.sqrt: sqrt(n/d) = sqrt(n*d)/d = (s/d) sqrt(n*d/s^2)
SqrtBy(t, s) == Fin({Term((t.n * t.d) \div (s * s), s, t.d)})

SqrtTerm(t) == IF t.n < 0 THEN NaN ELSE SqrtBy(t, SquarePart(t.n * t.d, 2))

Sqrt(a) ==
    CASE IsUnrep(a)  -> Unrep
      [] IsNaN(a)    -> NaN
      [] a = PosInf  -> PosInf
      [] a = NegInf  -> NaN
      [] IsZero(a)   -> Zero
      [] IsRational(a) -> SqrtTerm(CHOOSE u \in a.s : TRUE)
      [] OTHER       -> Unrep

\* The comparisons of JavaScript: every comparison with NaN is false.
Lt(a, b) == ~IsNaN(a) /\ ~IsNaN(b) /\ a # b /\ Sign(Minus(a, b)) < 0
Gt(a, b) == Lt(b, a)

\* Math.min
Min(a, b) ==
    IF IsUnrep(a) \/ IsUnrep(b) THEN Unrep
    ELSE IF IsNaN(a) \/ IsNaN(b) THEN NaN ELSE IF Lt(b, a) THEN b ELSE a

\* The === of two numbers: NaN equals nothing.
Eq(a, b) == ~IsNaN(a) /\ ~IsNaN(b) /\ a = b

\* An omitted argument.
Undefined == [k |-> "undef", s |-> {}]

\* JavaScript truthiness of an argument: 0, NaN and undefined are falsy.
Truthy(a) == ~IsZero(a) /\ ~IsNaN(a) /\ a # Undefined

Two == Int2Num(2)
Sq(a) == Times(a, a)

(***************************************************************************)
(* Angles.  An angle is held exactly as its cosine and sine.  The angles   *)
(* the class takes the cosine and sine of are multiples t * acos(dot); for *)
(* t a multiple of 1/2 they are exact: the half angle of an angle in       *)
(* [0, pi] has cosine sqrt((1+c)/2) and sine sqrt((1-c)/2), and a whole    *)
(* multiple is a power of cos + i sin.                                     *)
(***************************************************************************)
Ang(c, s) == [c |-> c, s |-> s]
NaNAngle   == Ang(NaN, NaN)
UnrepAngle == Ang(Unrep, Unrep)

\* Math.acos: an angle in [0, pi], NaN outside [-1, 1].
acos(d) ==
    IF IsUnrep(d) THEN UnrepAngle
    ELSE IF IsNaN(d) \/ Lt(d, Int2Num(-1)) \/ Gt(d, One) THEN NaNAngle
    ELSE Ang(d, Sqrt(Minus(One, Sq(d))))

\* Math.asin: an angle in [-pi/2, pi/2], NaN outside [-1, 1].
asin(d) ==
    IF IsUnrep(d) THEN UnrepAngle
    ELSE IF IsNaN(d) \/ Lt(d, Int2Num(-1)) \/ Gt(d, One) THEN NaNAngle
    ELSE Ang(Sqrt(Minus(One, Sq(d))), d)

\* Math.atan2(y, x): the direction of the point (x, y); atan2(0, 0) = 0.
Direction(x, y, h) ==
    IF IsNaN(x) \/ IsNaN(y) THEN NaNAngle
    ELSE IF IsZero(x) /\ IsZero(y) THEN Ang(One, Zero)
    ELSE IF IsUnrep(h) \/ IsInf(h) THEN UnrepAngle
    ELSE Ang(Over(x, h), Over(y, h))

atan2(y, x) == Direction(x, y, Sqrt(Plus(Sq(x), Sq(y))))

AngMul(a, b) == Ang(Minus(Times(a.c, b.c), Times(a.s, b.s)),
                    Plus(Times(a.s, b.c), Times(a.c, b.s)))

RECURSIVE AngPow(_, _)
AngPow(a, k) ==
    IF k = 0 THEN Ang(One, Zero)
    ELSE IF k < 0 THEN AngPow(Ang(a.c, Neg(a.s)), -k)
    ELSE AngMul(a, AngPow(a, k - 1))

\* Half of an angle of (-pi, pi].
HalfBy(a, hc, hs) == Ang(hc, IF IsFin(a.s) /\ Sign(a.s) < 0 THEN Neg(hs) ELSE hs)

HalfAngle(a) ==
    HalfBy(a, Sqrt(Over(Plus(One, a.c), Two)), Sqrt(Over(Minus(One, a.c), Two)))

\* theta_0 * t for theta_0 = acos(..) in [0, pi]: exact when 2t is an integer.
AngTimesBy(a, u) ==
    IF (2 * u.n) % u.d # 0 THEN UnrepAngle
    ELSE IF u.d = 1 THEN AngPow(a, u.n)
    ELSE AngPow(HalfAngle(a), u.n)

AngTimes(a, t) ==
    IF IsNaN(a.c) \/ IsNaN(t) THEN NaNAngle
    ELSE IF IsUnrep(a.c) \/ ~IsRational(t) THEN UnrepAngle
    ELSE IF IsZero(t) THEN Ang(One, Zero)
    ELSE AngTimesBy(a, CHOOSE v \in t.s : TRUE)

cos(a) == a.c
sin(a) == a.s

\* An angle of [0, pi] in degrees (radians * 180 / Math.PI): a rational or
\* quadratic cosine has a rational number of degrees only in these cases.
Surd(n, d, r) == Fin({[r |-> r, n |-> n, d |-> d]})

Degrees(a) ==
    CASE IsNaN(a.c)            -> NaN
      [] IsUnrep(a.c)          -> Unrep
      [] a.c = One             -> Zero
      [] a.c = Surd(1, 2, 3)   -> Int2Num(30)
      [] a.c = Surd(1, 2, 2)   -> Int2Num(45)
      [] a.c = Rat(1, 2)       -> Int2Num(60)
      [] a.c = Zero            -> Int2Num(90)
      [] a.c = Rat(-1, 2)      -> Int2Num(120)
      [] a.c = Surd(-1, 2, 2)  -> Int2Num(135)
      [] a.c = Surd(-1, 2, 3)  -> Int2Num(150)
      [] a.c = Int2Num(-1)     -> Int2Num(180)
      [] OTHER                 -> Unrep

(***************************************************************************)
(* The class.  A Quaternion object is a record of its four fields and its  *)
(* identity id: the index of the object in the heap, 0 for an object a     *)
(* call has just constructed and not yet returned.                         *)
(***************************************************************************)

\* A constructor that tests its arguments against undefined, so that a
\* zero given for w is kept.
QuaternionKeepsZero(x, y, z, w) ==
    [id |-> 0,
     x  |-> IF Truthy(x) THEN x ELSE Zero,
     y  |-> IF Truthy(y) THEN y ELSE Zero,
     z  |-> IF Truthy(z) THEN z ELSE Zero,
     w  |-> IF w # Undefined /\ ~IsNaN(w) THEN w ELSE One]

\* A constructor that assigns every argument that is given:
\* if (x !== undefined) this.x = x; ...
QuaternionKeepsGiven(x, y, z, w) ==
    [id |-> 0,
     x  |-> IF x # Undefined THEN x ELSE Zero,
     y  |-> IF y # Undefined THEN y ELSE Zero,
     z  |-> IF z # Undefined THEN z ELSE Zero,
     w  |-> IF w # Undefined THEN w ELSE One]

\* constructor(x?, y?, z?, w?), on the field defaults x = y = z = 0, w = 1.
Quaternion(x, y, z, w) ==
    [id |-> 0,
     x  |-> IF Truthy(x) THEN x ELSE Zero,
     y  |-> IF Truthy(y) THEN y ELSE Zero,
     z  |-> IF Truthy(z) THEN z ELSE Zero,
     w  |-> IF Truthy(w) THEN w ELSE One]

\* An identity that is one object, built once and returned by every read:
\* static readonly identity = new Quaternion(0, 0, 0, 1)
identityShared ==
    IF Len(heap) > 0 THEN heap[1] ELSE Quaternion(Zero, Zero, Zero, One)

\* static get identity
identity == Quaternion(Zero, Zero, Zero, One)

\* static Dot(lhs, rhs)
Dot(lhs, rhs) ==
    Plus(Plus(Plus(Times(lhs.x, rhs.x), Times(lhs.y, rhs.y)),
              Times(lhs.z, rhs.z)), Times(lhs.w, rhs.w))

\* get magnitude
magnitude(this) == Sqrt(Dot(this, this))

\* get sqrMagnitude
sqrMagnitude(this) == Sqrt(magnitude(this))

\* The locals of a method are carried as parameters of an operator for the
\* rest of its body: normalizedBy is the body of normalized below `mag`.
normalizedBy(this, mag) ==
    IF Gt(mag, Zero)
    THEN Quaternion(Over(this.x, mag), Over(this.y, mag),
                    Over(this.z, mag), Over(this.w, mag))
    ELSE identity

\* get normalized
normalized(this) == normalizedBy(this, magnitude(this))

\* get conjugate
conjugate(this) == Quaternion(Neg(this.x), Neg(this.y), Neg(this.z), this.w)

\* The body of inverse below `conj` and `mag2`.
inverseOf(conj, mag2) ==
    Quaternion(Over(conj.x, mag2), Over(conj.y, mag2),
               Over(conj.z, mag2), Over(conj.w, mag2))

\* An inverse with the zero check of normalized.
inverseGuarded(this) ==
    IF Gt(magnitude(this), Zero)
    THEN inverseOf(conjugate(this), Sq(magnitude(this)))
    ELSE identity

\* get inverse
inverse(this) == inverseOf(conjugate(this), Sq(magnitude(this)))

\* The pitch term of eulerAngles, as it is passed to Math.asin.
PitchAbove(t2) == IF Gt(t2, One) THEN Plus(t2, One) ELSE t2
PitchBelow(t2) == IF Lt(t2, Int2Num(-1)) THEN Minus(t2, One) ELSE t2

eulerPitchTerm(this) ==
    PitchBelow(PitchAbove(
        Times(Two, Minus(Times(this.w, this.y), Times(this.z, this.x)))))

\* get eulerAngles: a Vector3 of three angles.
eulerAngles(this) ==
    LET t0 == Times(Two, Plus(Times(this.w, this.x), Times(this.y, this.z)))
        t1 == Minus(One, Times(Two, Plus(Times(this.x, this.x), Times(this.y, this.y))))
        z  == atan2(t0, t1)
        y  == asin(eulerPitchTerm(this))
        t3 == Times(Two, Plus(Times(this.w, this.z), Times(this.x, this.y)))
        t4 == Minus(One, Times(Two, Plus(Times(this.y, this.y), Times(this.z, this.z))))
        x  == atan2(t3, t4)
    IN  [x |-> x, y |-> y, z |-> z]

\* static Euler(v), v a Vector3 of three angles of (-pi, pi].
Euler(v) ==
    LET hx == HalfAngle(v.x)
        hy == HalfAngle(v.y)
        hz == HalfAngle(v.z)
    IN  Quaternion(
          Minus(Times(Times(sin(hz), cos(hy)), cos(hx)), Times(Times(cos(hz), sin(hy)), sin(hx))),
          Plus(Times(Times(cos(hz), sin(hy)), cos(hx)), Times(Times(sin(hz), cos(hy)), sin(hx))),
          Minus(Times(Times(cos(hz), cos(hy)), sin(hx)), Times(Times(sin(hz), sin(hy)), cos(hx))),
          Plus(Times(Times(cos(hz), cos(hy)), cos(hx)), Times(Times(sin(hz), sin(hy)), sin(hx))))

\* static Normalize(q)
Normalize(q) == normalized(q)

\* static Angle(from, to), in degrees
Angle(from, to) ==
    LET dot     == Dot(from, to)
        magFrom == magnitude(from)
        magTo   == magnitude(to)
    IN  Degrees(acos(Over(dot, Times(magFrom, magTo))))

\* The multiplier of ClampMagnitude.
ClampMultiplier(mag, maxLength) ==
    IF Gt(mag, maxLength) THEN Over(maxLength, mag) ELSE One

\* The body of ClampMagnitude below `multiplier`.
ClampedBy(quaternion, multiplier) ==
    Quaternion(Times(quaternion.x, multiplier), Times(quaternion.y, multiplier),
               Times(quaternion.z, multiplier), Times(quaternion.w, multiplier))

\* static ClampMagnitude(quaternion, maxLength)
ClampMagnitude(quaternion, maxLength) ==
    ClampedBy(quaternion, ClampMultiplier(magnitude(quaternion), maxLength))

DOT_THRESHOLD == Rat(1999, 2000)

\* DoSlerp, the near-parallel branch: normalized linear interpolation.
SlerpLinear(from, to, t) ==
    normalized(Quaternion(
        Plus(from.x, Times(t, Minus(to.x, from.x))),
        Plus(from.y, Times(t, Minus(to.y, from.y))),
        Plus(from.z, Times(t, Minus(to.z, from.z))),
        Plus(from.w, Times(t, Minus(to.w, from.w)))))

\* DoSlerp: to_orthogonal
ToOrthogonal(from, to, dot) ==
    normalized(Quaternion(
        Minus(to.x, Times(from.x, dot)),
        Minus(to.y, Times(from.y, dot)),
        Minus(to.z, Times(from.z, dot)),
        Minus(to.w, Times(from.w, dot))))

\* DoSlerp: the interpolated quaternion
SlerpArc(from, to_orthogonal, theta) ==
    Quaternion(
        Plus(Times(from.x, cos(theta)), Times(to_orthogonal.x, sin(theta))),
        Plus(Times(from.y, cos(theta)), Times(to_orthogonal.y, sin(theta))),
        Plus(Times(from.z, cos(theta)), Times(to_orthogonal.z, sin(theta))),
        Plus(Times(from.w, cos(theta)), Times(to_orthogonal.w, sin(theta))))

\* DoSlerp below the shorter-path step, on `to` and `dot` as it left them.
SlerpFrom(from, to, dot, t) ==
    IF Gt(dot, DOT_THRESHOLD)
    THEN SlerpLinear(from, to, t)
    ELSE SlerpArc(from, ToOrthogonal(from, to, dot), AngTimes(acos(dot), t))

\* DoSlerp below `dot`: the shorter-path step.
SlerpShorter(from, to, dot, t) ==
    IF Lt(dot, Zero)
    THEN SlerpFrom(from, Quaternion(Neg(to.x), Neg(to.y), Neg(to.z), Neg(to.w)), Neg(dot), t)
    ELSE SlerpFrom(from, to, dot, t)

\* private static DoSlerp(from, to, t)
DoSlerp(from, to, t) == SlerpShorter(from, to, Dot(from, to), t)

\* A Slerp that clamps t to [0, 1] and interpolates at the clamped value.
SlerpAtClamped(from, to, t) ==
    IF Lt(t, Zero) THEN DoSlerp(from, to, Zero)
    ELSE IF Gt(t, One) THEN DoSlerp(from, to, One)
    ELSE DoSlerp(from, to, t)

\* static Slerp(from, to, t)
Slerp(from, to, t) ==
    IF Lt(t, Zero) THEN from
    ELSE IF Gt(t, One) THEN to
    ELSE DoSlerp(from, to, t)

\* static SlerpUnclamped(from, to, t)
SlerpUnclamped(from, to, t) == DoSlerp(from, to, t)

\* static RotateTowards(from, to, maxDegreesDelta)
RotateBy(from, to, maxDegreesDelta, angle) ==
    IF Eq(angle, Zero) THEN to
    ELSE SlerpUnclamped(from, to, Min(One, Over(maxDegreesDelta, angle)))

RotateTowards(from, to, maxDegreesDelta) ==
    RotateBy(from, to, maxDegreesDelta, Angle(from, to))

\* A RotatePoint whose x, y, z are the fields of rotation, not doubled.
RotatePointUndoubled(rotation, point) ==
    LET x  == rotation.x
        y  == rotation.y
        z  == rotation.z
        xx == Times(rotation.x, x)
        yy == Times(rotation.y, y)
        zz == Times(rotation.z, z)
        xy == Times(rotation.x, y)
        xz == Times(rotation.x, z)
        yz == Times(rotation.y, z)
        wx == Times(rotation.w, x)
        wy == Times(rotation.w, y)
        wz == Times(rotation.w, z)
    IN  [x |-> Plus(Plus(Times(Minus(One, Plus(yy, zz)), point.x),
                         Times(Minus(xy, wz), point.y)), Times(Plus(xz, wy), point.z)),
         y |-> Plus(Plus(Times(Plus(xy, wz), point.x),
                         Times(Minus(One, Plus(xx, zz)), point.y)), Times(Minus(yz, wx), point.z)),
         z |-> Plus(Plus(Times(Minus(xz, wy), point.x),
                         Times(Plus(yz, wx), point.y)), Times(Minus(One, Plus(xx, yy)), point.z))]

\* static RotatePoint(rotation, point): a Vector3 of three numbers, Vector3
\* being a holder of the three numbers it is constructed from.
RotatePoint(rotation, point) ==
    LET x  == Times(rotation.x, Two)
        y  == Times(rotation.y, Two)
        z  == Times(rotation.z, Two)
        xx == Times(rotation.x, x)
        yy == Times(rotation.y, y)
        zz == Times(rotation.z, z)
        xy == Times(rotation.x, y)
        xz == Times(rotation.x, z)
        yz == Times(rotation.y, z)
        wx == Times(rotation.w, x)
        wy == Times(rotation.w, y)
        wz == Times(rotation.w, z)
    IN  [x |-> Plus(Plus(Times(Minus(One, Plus(yy, zz)), point.x),
                         Times(Minus(xy, wz), point.y)), Times(Plus(xz, wy), point.z)),
         y |-> Plus(Plus(Times(Plus(xy, wz), point.x),
                         Times(Minus(One, Plus(xx, zz)), point.y)), Times(Minus(yz, wx), point.z)),
         z |-> Plus(Plus(Times(Minus(xz, wy), point.x),
                         Times(Plus(yz, wx), point.y)), Times(Minus(One, Plus(xx, yy)), point.z))]

\* static Magnitude(quaternion)
Magnitude(quaternion) == magnitude(quaternion)

\* static Add(lhs, rhs)
Add(lhs, rhs) ==
    Quaternion(Plus(lhs.x, rhs.x), Plus(lhs.y, rhs.y),
               Plus(lhs.z, rhs.z), Plus(lhs.w, rhs.w))

\* static Subtract(lhs, rhs)
Subtract(lhs, rhs) ==
    Quaternion(Minus(lhs.x, rhs.x), Minus(lhs.y, rhs.y),
               Minus(lhs.z, rhs.z), Minus(lhs.w, rhs.w))

\* static Multiply(lhs, rhs)
Multiply(lhs, rhs) ==
    Quaternion(
      Minus(Plus(Plus(Times(lhs.w, rhs.x), Times(lhs.x, rhs.w)), Times(lhs.y, rhs.z)), Times(lhs.z, rhs.y)),
      Minus(Plus(Plus(Times(lhs.w, rhs.y), Times(lhs.y, rhs.w)), Times(lhs.z, rhs.x)), Times(lhs.x, rhs.z)),
      Minus(Plus(Plus(Times(lhs.w, rhs.z), Times(lhs.z, rhs.w)), Times(lhs.x, rhs.y)), Times(lhs.y, rhs.x)),
      Minus(Minus(Minus(Times(lhs.w, rhs.w), Times(lhs.x, rhs.x)), Times(lhs.y, rhs.y)), Times(lhs.z, rhs.z)))

\* static Divide(lhs, rhs)
Divide(lhs, rhs) ==
    LET inverseRhs == inverse(rhs)
    IN  Multiply(lhs, inverseRhs)

\* static Equals(lhs, rhs)
Equals(lhs, rhs) ==
    Eq(lhs.x, rhs.x) /\ Eq(lhs.y, rhs.y) /\ Eq(lhs.z, rhs.z) /\ Eq(lhs.w, rhs.w)

\* An Add(other) whose sums are written into other.
thisAddIntoOther(this, other) ==
    [other EXCEPT !.x = Plus(this.x, other.x), !.y = Plus(this.y, other.y),
                  !.z = Plus(this.z, other.z), !.w = Plus(this.w, other.w)]

\* Add(other): this.x += other.x; ... ; this.w += other.w
thisAdd(this, other) ==
    [this EXCEPT !.x = Plus(this.x, other.x), !.y = Plus(this.y, other.y),
                 !.z = Plus(this.z, other.z), !.w = Plus(this.w, other.w)]

\* Subtract(other): this.x -= other.x; ... ; this.w -= other.w
thisSubtract(this, other) ==
    [this EXCEPT !.x = Minus(this.x, other.x), !.y = Minus(this.y, other.y),
                 !.z = Minus(this.z, other.z), !.w = Minus(this.w, other.w)]

\* What `other` reads once `this` has been assigned to: the assigned object
\* when other is this very object.
Seen(other, this) == IF other.id = this.id /\ this.id # 0 THEN this ELSE other

\* The four assignments of Multiply(other), each on `this` as the ones
\* before it left it.
MultiplyX(this, other) ==
    [this EXCEPT !.x =
        Minus(Plus(Plus(Times(this.w, other.x), Times(this.x, other.w)),
                   Times(this.y, other.z)), Times(this.z, other.y))]

MultiplyY(this, other) ==
    [this EXCEPT !.y =
        Minus(Plus(Plus(Times(this.w, other.y), Times(this.y, other.w)),
                   Times(this.z, other.x)), Times(this.x, other.z))]

MultiplyZ(this, other) ==
    [this EXCEPT !.z =
        Minus(Plus(Plus(Times(this.w, other.z), Times(this.z, other.w)),
                   Times(this.x, other.y)), Times(this.y, other.x))]

MultiplyW(this, other) ==
    [this EXCEPT !.w =
        Minus(Minus(Minus(Times(this.w, other.w), Times(this.x, other.x)),
                    Times(this.y, other.y)), Times(this.z, other.z))]

\* Each later assignment reads `other` as the ones before it left it.
ThenY(this, other) == MultiplyY(this, Seen(other, this))
ThenZ(this, other) == MultiplyZ(this, Seen(other, this))
ThenW(this, other) == MultiplyW(this, Seen(other, this))

\* Multiply(other)
thisMultiply(this, other) ==
    ThenW(ThenZ(ThenY(MultiplyX(this, other), other), other), other)

\* Divide(other)
thisDivide(this, other) ==
    LET inverseOther == inverse(other)
    IN  thisMultiply(this, inverseOther)

\* Equals(other)
thisEquals(this, other) ==
    Eq(this.x, other.x) /\ Eq(this.y, other.y) /\ Eq(this.z, other.z) /\ Eq(this.w, other.w)

(***************************************************************************)
(* The state.  heap is the sequence of the Quaternion objects the caller   *)
(* holds; last records the latest call: its name, the receiver (0 for a    *)
(* static call), the objects passed, the numbers passed, the object        *)
(* returned (0 for none), a returned number, Boolean or Vector3, and the   *)
(* heap as it was before the call.  budget is the number of calls left.    *)
(***************************************************************************)

\* The bounds of the model.
MaxT     == 4    \* the numbers passed are k/2 for k in -MaxT..MaxT
MaxCoord == 1    \* the points rotated have coordinates in -MaxCoord..MaxCoord
MaxCalls == 3    \* the calls and field writes of a sequence on identity objects

Obj(i, x, y, z, w) == [id |-> i, x |-> x, y |-> y, z |-> z, w |-> w]

\* The field values the initial objects are drawn from: unit and non-unit
\* quaternions, with w = 0 (a field write, or q.Subtract) and without, and
\* (0, 0, 0, Infinity), which q.inverse returns for the zero quaternion.
Inputs ==
    { <<Zero, Zero, Zero, One>>,
      <<One, Zero, Zero, Zero>>,
      <<Rat(3, 5), Zero, Zero, Rat(4, 5)>>,
      <<Rat(-4, 5), Zero, Zero, Rat(3, 5)>>,
      <<Rat(4, 5), Zero, Zero, Rat(3, 5)>>,
      <<Zero, Zero, Zero, Int2Num(-1)>>,
      <<Rat(1, 2), Rat(1, 2), Rat(1, 2), Rat(1, 2)>>,
      <<Zero, Rat(3, 5), Rat(4, 5), Zero>>,
      <<Zero, Zero, Zero, Zero>>,
      <<One, Zero, Zero, One>>,
      <<One, Int2Num(2), Int2Num(3), Int2Num(4)>>,
      <<Zero, Zero, Zero, Two>>,
      <<Int2Num(3), Zero, Zero, Int2Num(4)>>,
      <<Zero, Zero, One, One>>,
      <<Zero, Zero, Zero, PosInf>> }

Halves == {Rat(k, 2) : k \in -MaxT..MaxT}
Coords == {Int2Num(k) : k \in -MaxCoord..MaxCoord}
\* The angles 0, pi/2, pi and -pi/2.
RightAngles == {Ang(One, Zero), Ang(Zero, One), Ang(Int2Num(-1), Zero), Ang(Zero, Int2Num(-1))}
\* The arguments of a constructor call.
CtorArgs == {Undefined, Zero, NaN, One, Rat(-1, 2)}

Objs == DOMAIN heap

ExactQ(q) == ~IsUnrep(q.x) /\ ~IsUnrep(q.y) /\ ~IsUnrep(q.z) /\ ~IsUnrep(q.w)
ExactAngle(a) == ~IsUnrep(a.c) /\ ~IsUnrep(a.s)

NoCall == [op |-> "", recv |-> 0, args |-> <<>>, nums |-> <<>>, ret |-> 0,
           val |-> Zero, pre |-> <<>>]

\* The activation of a method that is run statement by statement: the
\* statement it is at (pc, a line of quaternion.ts), the method called (op)
\* with its arguments (from, arg, num), and the locals of Slerp,
\* SlerpUnclamped, RotateTowards and DoSlerp.  NoFrame: no such activation.
Unset == Obj(0, Zero, Zero, Zero, Zero)
NoFrame == [pc |-> "", op |-> "", from |-> 0, arg |-> 0, num |-> Zero,
            to |-> Unset, t |-> Zero, dot |-> Zero, angle |-> Zero,
            theta |-> Ang(One, Zero), to_orthogonal |-> Unset]

\* Two objects whose public fields hold any of the Inputs, and one call to
\* come: the properties below are each about one call, whatever the fields
\* of the objects it is made on.
Init ==
    /\ \E a, b \in Inputs :
          heap = << Obj(1, a[1], a[2], a[3], a[4]), Obj(2, b[1], b[2], b[3], b[4]) >>
    /\ last = NoCall
    /\ budget = 1
    /\ frame = NoFrame

\* The heap once a call has returned the object r: a constructed object
\* joins the heap, an object of the heap is already there.
Returned(h, r) == IF r.id = 0 THEN Append(h, [r EXCEPT !.id = Len(h) + 1]) ELSE h
RetId(h, r)    == IF r.id = 0 THEN Len(h) + 1 ELSE r.id

\* A call that returns the Quaternion r.
ReturnsQ(op, recv, args, nums, r) ==
    /\ ExactQ(r)
    /\ heap' = Returned(heap, r)
    /\ last' = [op |-> op, recv |-> recv, args |-> args, nums |-> nums,
                ret |-> RetId(heap, r), val |-> Zero, pre |-> heap]
    /\ budget' = budget - 1
    /\ frame' = NoFrame

\* A call that returns the number, Boolean or Vector3 v.
ReturnsV(op, recv, args, nums, v) ==
    /\ heap' = heap
    /\ last' = [op |-> op, recv |-> recv, args |-> args, nums |-> nums,
                ret |-> 0, val |-> v, pre |-> heap]
    /\ budget' = budget - 1
    /\ frame' = NoFrame

\* A call of a void instance method that leaves its receiver as r.
Mutates(op, args, r) ==
    /\ ExactQ(r)
    /\ heap' = [heap EXCEPT ![r.id] = r]
    /\ last' = [op |-> op, recv |-> args[1], args |-> <<args[2]>>, nums |-> <<>>,
                ret |-> 0, val |-> Zero, pre |-> heap]
    /\ budget' = budget - 1
    /\ frame' = NoFrame

New ==
    /\ budget > 0
    /\ \E x, y, z, w \in CtorArgs :
           ReturnsQ("new Quaternion", 0, <<>>, <<x, y, z, w>>, Quaternion(x, y, z, w))

GetIdentity ==
    /\ budget > 0
    /\ ReturnsQ("Quaternion.identity", 0, <<>>, <<>>, identity)

GetNormalized ==
    /\ budget > 0
    /\ \E q \in Objs : ReturnsQ("normalized", q, <<>>, <<>>, normalized(heap[q]))

GetMagnitude ==
    /\ budget > 0
    /\ \E q \in Objs : ReturnsV("magnitude", q, <<>>, <<>>, magnitude(heap[q]))

\* A call that returns the number v, taken when v is in the model.
ReturnsNum(op, recv, args, nums, v) ==
    ~IsUnrep(v) /\ ReturnsV(op, recv, args, nums, v)

\* A call that returns the Vector3 of angles v, taken when v is in the model.
ReturnsAngles(op, recv, args, nums, v) ==
    /\ ExactAngle(v.x) /\ ExactAngle(v.y) /\ ExactAngle(v.z)
    /\ ReturnsV(op, recv, args, nums, v)

GetSqrMagnitude ==
    /\ budget > 0
    /\ \E q \in Objs : ReturnsNum("sqrMagnitude", q, <<>>, <<>>, sqrMagnitude(heap[q]))

GetConjugate ==
    /\ budget > 0
    /\ \E q \in Objs : ReturnsQ("conjugate", q, <<>>, <<>>, conjugate(heap[q]))

GetInverse ==
    /\ budget > 0
    /\ \E q \in Objs : ReturnsQ("inverse", q, <<>>, <<>>, inverse(heap[q]))

GetEulerAngles ==
    /\ budget > 0
    /\ \E q \in Objs : ReturnsAngles("eulerAngles", q, <<>>, <<>>, eulerAngles(heap[q]))

CallEuler ==
    /\ budget > 0
    /\ \E x, y, z \in RightAngles :
           ReturnsQ("Quaternion.Euler", 0, <<>>, <<x, y, z>>, Euler([x |-> x, y |-> y, z |-> z]))

CallNormalize ==
    /\ budget > 0
    /\ \E q \in Objs : ReturnsQ("Quaternion.Normalize", 0, <<q>>, <<>>, Normalize(heap[q]))

CallAngle ==
    /\ budget > 0
    /\ \E from, to \in Objs :
           ReturnsNum("Quaternion.Angle", 0, <<from, to>>, <<>>, Angle(heap[from], heap[to]))

CallClampMagnitude ==
    /\ budget > 0
    /\ \E q \in Objs, maxLength \in Halves :
           ReturnsQ("Quaternion.ClampMagnitude", 0, <<q>>, <<maxLength>>,
                    ClampMagnitude(heap[q], maxLength))

\* RotateTowards is in the model when the angle is a whole number of
\* degrees and the interpolation parameter it passes on a multiple of 1/2.
RotatesExactly(angle, maxDegreesDelta) ==
    /\ ~IsUnrep(angle)
    /\ \/ Eq(angle, Zero)
       \/ ExactAngle(AngTimes(Ang(Zero, One), Min(One, Over(maxDegreesDelta, angle))))

\* maxDegreesDelta is a multiple of 45 degrees.
CallRotateTowards ==
    /\ budget > 0
    /\ \E from, to \in Objs, h \in Halves :
           /\ RotatesExactly(Angle(heap[from], heap[to]), Times(Int2Num(90), h))
           /\ ReturnsQ("Quaternion.RotateTowards", 0, <<from, to>>, <<Times(Int2Num(90), h)>>,
                       RotateTowards(heap[from], heap[to], Times(Int2Num(90), h)))

CallSlerp ==
    /\ budget > 0
    /\ \E from, to \in Objs, t \in Halves :
           ReturnsQ("Quaternion.Slerp", 0, <<from, to>>, <<t>>, Slerp(heap[from], heap[to], t))

CallSlerpUnclamped ==
    /\ budget > 0
    /\ \E from, to \in Objs, t \in Halves :
           ReturnsQ("Quaternion.SlerpUnclamped", 0, <<from, to>>, <<t>>,
                    SlerpUnclamped(heap[from], heap[to], t))

CallRotatePoint ==
    /\ budget > 0
    /\ \E rotation \in Objs, x, y, z \in Coords :
           ReturnsV("Quaternion.RotatePoint", 0, <<rotation>>, <<x, y, z>>,
                    RotatePoint(heap[rotation], [x |-> x, y |-> y, z |-> z]))

CallDot ==
    /\ budget > 0
    /\ \E lhs, rhs \in Objs :
           ReturnsV("Quaternion.Dot", 0, <<lhs, rhs>>, <<>>, Dot(heap[lhs], heap[rhs]))

CallMagnitude ==
    /\ budget > 0
    /\ \E q \in Objs : ReturnsV("Quaternion.Magnitude", 0, <<q>>, <<>>, Magnitude(heap[q]))

CallAdd ==
    /\ budget > 0
    /\ \E lhs, rhs \in Objs :
           ReturnsQ("Quaternion.Add", 0, <<lhs, rhs>>, <<>>, Add(heap[lhs], heap[rhs]))

CallSubtract ==
    /\ budget > 0
    /\ \E lhs, rhs \in Objs :
           ReturnsQ("Quaternion.Subtract", 0, <<lhs, rhs>>, <<>>, Subtract(heap[lhs], heap[rhs]))

CallMultiply ==
    /\ budget > 0
    /\ \E lhs, rhs \in Objs :
           ReturnsQ("Quaternion.Multiply", 0, <<lhs, rhs>>, <<>>, Multiply(heap[lhs], heap[rhs]))

CallDivide ==
    /\ budget > 0
    /\ \E lhs, rhs \in Objs :
           ReturnsQ("Quaternion.Divide", 0, <<lhs, rhs>>, <<>>, Divide(heap[lhs], heap[rhs]))

CallEquals ==
    /\ budget > 0
    /\ \E lhs, rhs \in Objs :
           ReturnsV("Quaternion.Equals", 0, <<lhs, rhs>>, <<>>, Equals(heap[lhs], heap[rhs]))

CallThisAdd ==
    /\ budget > 0
    /\ \E this, other \in Objs : Mutates("Add", <<this, other>>, thisAdd(heap[this], heap[other]))

CallThisSubtract ==
    /\ budget > 0
    /\ \E this, other \in Objs :
           Mutates("Subtract", <<this, other>>, thisSubtract(heap[this], heap[other]))

CallThisMultiply ==
    /\ budget > 0
    /\ \E this, other \in Objs :
           Mutates("Multiply", <<this, other>>, thisMultiply(heap[this], heap[other]))

CallThisDivide ==
    /\ budget > 0
    /\ \E this, other \in Objs :
           Mutates("Divide", <<this, other>>, thisDivide(heap[this], heap[other]))

CallThisEquals ==
    /\ budget > 0
    /\ \E this, other \in Objs :
           ReturnsV("Equals", this, <<other>>, <<>>, thisEquals(heap[this], heap[other]))

Next ==
    \/ New \/ GetIdentity \/ GetNormalized \/ GetMagnitude \/ GetSqrMagnitude
    \/ GetConjugate \/ GetInverse \/ GetEulerAngles
    \/ CallEuler \/ CallNormalize \/ CallAngle \/ CallClampMagnitude
    \/ CallRotateTowards \/ CallSlerp \/ CallSlerpUnclamped \/ CallRotatePoint
    \/ CallDot \/ CallMagnitude \/ CallAdd \/ CallSubtract \/ CallMultiply
    \/ CallDivide \/ CallEquals
    \/ CallThisAdd \/ CallThisSubtract \/ CallThisMultiply \/ CallThisDivide
    \/ CallThisEquals

Spec == Init /\ [][Next]_vars

(***************************************************************************)
(* Slerp, SlerpUnclamped and RotateTowards statement by statement.  The    *)
(* methods they call besides one another and DoSlerp (Dot, Angle, the      *)
(* constructor, normalized) are single expressions or straight-line code   *)
(* and are evaluated within the statement that calls them.                 *)
(***************************************************************************)
At(pc) == frame.pc = pc

\* A call of op(from, to, num) begins at statement pc.
Enter(op, pc, from, to, num) ==
    /\ frame' = [NoFrame EXCEPT !.pc = pc, !.op = op, !.from = from, !.arg = to,
                                !.num = num, !.to = heap[to], !.t = num]
    /\ UNCHANGED <<heap, last, budget>>

Goto(pc) ==
    /\ frame' = [frame EXCEPT !.pc = pc]
    /\ UNCHANGED <<heap, last, budget>>

\* `return r` of the method called.
Return(r) == ReturnsQ(frame.op, 0, <<frame.from, frame.arg>>, <<frame.num>>, r)

EnterSlerp ==
    /\ budget > 0 /\ frame = NoFrame
    /\ \E from, to \in Objs, t \in Halves :
           /\ ExactQ(Slerp(heap[from], heap[to], t))
           /\ Enter("Quaternion.Slerp", "533", from, to, t)

EnterSlerpUnclamped ==
    /\ budget > 0 /\ frame = NoFrame
    /\ \E from, to \in Objs, t \in Halves :
           /\ ExactQ(SlerpUnclamped(heap[from], heap[to], t))
           /\ Enter("Quaternion.SlerpUnclamped", "599", from, to, t)

EnterRotateTowards ==
    /\ budget > 0 /\ frame = NoFrame
    /\ \E from, to \in Objs, h \in Halves :
           /\ RotatesExactly(Angle(heap[from], heap[to]), Times(Int2Num(90), h))
           /\ ExactQ(RotateTowards(heap[from], heap[to], Times(Int2Num(90), h)))
           /\ Enter("Quaternion.RotateTowards", "520", from, to, Times(Int2Num(90), h))

\* Slerp: if (t < 0) return from;
SlerpBelow ==
    /\ At("533")
    /\ IF Lt(frame.t, Zero) THEN Return(heap[frame.from]) ELSE Goto("534")

\* Slerp: if (t > 1) return to;
SlerpAbove ==
    /\ At("534")
    /\ IF Gt(frame.t, One) THEN Return(frame.to) ELSE Goto("536")

\* Slerp: return Quaternion.DoSlerp(from, to, t);
SlerpCall == At("536") /\ Goto("548")

\* SlerpUnclamped: return Quaternion.DoSlerp(from, to, t);
SlerpUnclampedCall == At("599") /\ Goto("548")

\* RotateTowards: let angle = this.Angle(from, to);
RotateTowardsAngle ==
    /\ At("520")
    /\ frame' = [frame EXCEPT !.angle = Angle(heap[frame.from], frame.to), !.pc = "521"]
    /\ UNCHANGED <<heap, last, budget>>

\* RotateTowards: if (angle === 0) return to;
RotateTowardsSame ==
    /\ At("521")
    /\ IF Eq(frame.angle, Zero) THEN Return(frame.to) ELSE Goto("522")

\* RotateTowards: return this.SlerpUnclamped(from, to, Math.min(1, maxDegreesDelta / angle));
RotateTowardsCall ==
    /\ At("522")
    /\ frame' = [frame EXCEPT !.t = Min(One, Over(frame.num, frame.angle)), !.pc = "599"]
    /\ UNCHANGED <<heap, last, budget>>

\* A DoSlerp whose first statement is repeated while 0 < t, as the loop of
\* the historical DoSlerp (quaternion.ts 211-220) repeats its body:
\* for (let i = 0; i < t; i += Number.MIN_VALUE) { q2 = Multiply(q1, q1); }
DoSlerpRepeat ==
    /\ At("548")
    /\ IF Gt(frame.t, Zero)
       THEN /\ frame' = [frame EXCEPT !.dot = Dot(heap[frame.from], frame.to)]
            /\ UNCHANGED <<heap, last, budget>>
       ELSE Goto("552")

\* DoSlerp: let dot = this.Dot(from, to);
DoSlerpDot ==
    /\ At("548")
    /\ frame' = [frame EXCEPT !.dot = Dot(heap[frame.from], frame.to), !.pc = "552"]
    /\ UNCHANGED <<heap, last, budget>>

\* A shorter-path step that inverts `to` and leaves dot as it is.
DoSlerpShorterKeepsDot ==
    /\ At("552")
    /\ frame' = IF Lt(frame.dot, Zero)
                THEN [frame EXCEPT !.to = Quaternion(Neg(frame.to.x), Neg(frame.to.y),
                                                     Neg(frame.to.z), Neg(frame.to.w)),
                                   !.pc = "558"]
                ELSE [frame EXCEPT !.pc = "558"]
    /\ UNCHANGED <<heap, last, budget>>

\* DoSlerp: if (dot < 0) { to = new Quaternion(-to.x, ...); dot = -dot; }
DoSlerpShorter ==
    /\ At("552")
    /\ frame' = IF Lt(frame.dot, Zero)
                THEN [frame EXCEPT !.to = Quaternion(Neg(frame.to.x), Neg(frame.to.y),
                                                     Neg(frame.to.z), Neg(frame.to.w)),
                                   !.dot = Neg(frame.dot), !.pc = "558"]
                ELSE [frame EXCEPT !.pc = "558"]
    /\ UNCHANGED <<heap, last, budget>>

\* DoSlerp: if (dot > DOT_THRESHOLD) { ...; return result.normalized; }
DoSlerpThreshold ==
    /\ At("558")
    /\ IF Gt(frame.dot, DOT_THRESHOLD)
       THEN Return(SlerpLinear(heap[frame.from], frame.to, frame.t))
       ELSE Goto("571")

\* DoSlerp: const theta_0 = Math.acos(dot); const theta = theta_0 * t;
DoSlerpTheta ==
    /\ At("571")
    /\ frame' = [frame EXCEPT !.theta = AngTimes(acos(frame.dot), frame.t), !.pc = "575"]
    /\ UNCHANGED <<heap, last, budget>>

\* DoSlerp: const to_orthogonal = new Quaternion(...).normalized;
DoSlerpOrthogonal ==
    /\ At("575")
    /\ frame' = [frame EXCEPT
                    !.to_orthogonal = ToOrthogonal(heap[frame.from], frame.to, frame.dot),
                    !.pc = "583"]
    /\ UNCHANGED <<heap, last, budget>>

\* DoSlerp: return new Quaternion(from.x * Math.cos(theta) + ...);
DoSlerpResult ==
    /\ At("583")
    /\ Return(SlerpArc(heap[frame.from], frame.to_orthogonal, frame.theta))

\* The statements of a call under way.
Statement ==
    \/ SlerpBelow \/ SlerpAbove \/ SlerpCall \/ SlerpUnclampedCall
    \/ RotateTowardsAngle \/ RotateTowardsSame \/ RotateTowardsCall
    \/ DoSlerpDot \/ DoSlerpShorter \/ DoSlerpThreshold
    \/ DoSlerpTheta \/ DoSlerpOrthogonal \/ DoSlerpResult

NextSteps == EnterSlerp \/ EnterSlerpUnclamped \/ EnterRotateTowards \/ Statement

\* JavaScript runs a call to completion: a call under way executes its next
\* statement.
SpecSteps == Init /\ [][NextSteps]_vars /\ WF_vars(Statement)

(***************************************************************************)
(* Sequences of reads of Quaternion.identity, mutating instance calls and  *)
(* field writes, from a program that holds no Quaternion yet.              *)
(***************************************************************************)
\* The values written to a field.
Written == {Zero, Two, Rat(-1, 2)}

\* q.x = v, q.y = v, q.z = v or q.w = v: the fields are public.
SetField ==
    /\ budget > 0
    /\ \E q \in Objs, f \in {"x", "y", "z", "w"}, v \in Written :
           /\ heap' = [heap EXCEPT ![q] = [heap[q] EXCEPT ![f] = v]]
           /\ last' = [op |-> "write", recv |-> q, args |-> <<>>, nums |-> <<v>>,
                       ret |-> 0, val |-> Zero, pre |-> heap]
           /\ budget' = budget - 1
           /\ frame' = NoFrame

InitIdentity ==
    /\ heap = <<>>
    /\ last = NoCall
    /\ budget = MaxCalls
    /\ frame = NoFrame

NextIdentity ==
    \/ GetIdentity \/ SetField
    \/ CallThisAdd \/ CallThisSubtract \/ CallThisMultiply \/ CallThisDivide

SpecIdentity == InitIdentity /\ [][NextIdentity]_vars

(***************************************************************************)
(* The properties.  Each is stated on the state a call has left: last      *)
(* names the call, last.pre the heap it was made on, heap the heap it      *)
(* left.                                                                   *)
(***************************************************************************)

Called(op) == last.op = op
\* The i-th object passed to the latest call, as it was when passed.
ArgOf(i) == last.pre[last.args[i]]
\* The receiver of the latest call, as it was when called.
RecvOf == last.pre[last.recv]
\* The object the latest call returned.
Result == heap[last.ret]

Fields(q) == <<q.x, q.y, q.z, q.w>>
IsUnit(q) == Dot(q, q) = One
Rational(q) == IsRational(q.x) /\ IsRational(q.y) /\ IsRational(q.z) /\ IsRational(q.w)

\* The Hamilton product of lhs and rhs, field by field.
Hamilton(lhs, rhs) ==
    << Minus(Plus(Plus(Times(lhs.w, rhs.x), Times(lhs.x, rhs.w)), Times(lhs.y, rhs.z)), Times(lhs.z, rhs.y)),
       Minus(Plus(Plus(Times(lhs.w, rhs.y), Times(lhs.y, rhs.w)), Times(lhs.z, rhs.x)), Times(lhs.x, rhs.z)),
       Minus(Plus(Plus(Times(lhs.w, rhs.z), Times(lhs.z, rhs.w)), Times(lhs.x, rhs.y)), Times(lhs.y, rhs.x)),
       Minus(Minus(Minus(Times(lhs.w, rhs.w), Times(lhs.x, rhs.x)), Times(lhs.y, rhs.y)), Times(lhs.z, rhs.z)) >>

\* C1: the static Quaternion.Multiply(lhs, rhs) returns the Hamilton
\* product of lhs and rhs: each of the four fields of the result is exactly
\* the value of the standard formula.
C1_MultiplyIsHamilton ==
    Called("Quaternion.Multiply") => Fields(Result) = Hamilton(ArgOf(1), ArgOf(2))

\* A call of Quaternion.Multiply whose Hamilton product has w = 0.
C1_Witness ==
    /\ Called("Quaternion.Multiply")
    /\ IsZero(Hamilton(ArgOf(1), ArgOf(2))[4])
    /\ Result.w = One

IdentityFields == <<Zero, Zero, Zero, One>>

\* C2: identity law.  For every unit quaternion q, unit quaternions with
\* w = 0 included, Quaternion.Multiply(q, identity) and
\* Quaternion.Multiply(identity, q) equal q field by field.
C2_IdentityLaw ==
    Called("Quaternion.Multiply") =>
        /\ (IsUnit(ArgOf(1)) /\ Fields(ArgOf(2)) = IdentityFields
               => Fields(Result) = Fields(ArgOf(1)))
        /\ (IsUnit(ArgOf(2)) /\ Fields(ArgOf(1)) = IdentityFields
               => Fields(Result) = Fields(ArgOf(2)))

\* A call Quaternion.Multiply(q, identity) on a unit q with w = 0.
C2_Witness ==
    /\ Called("Quaternion.Multiply")
    /\ IsUnit(ArgOf(1)) /\ IsZero(ArgOf(1).w)
    /\ Fields(ArgOf(2)) = IdentityFields
    /\ Fields(Result) # Fields(ArgOf(1))

NonZeroMagnitude(q) == ~IsZero(Dot(q, q))

\* C3: inverse round trip.  For every quaternion q of non-zero magnitude,
\* Quaternion.Multiply(q, q.inverse) is the identity (0,0,0,1), q.inverse
\* being the conjugate over the squared magnitude; and so is
\* Quaternion.Divide(q, q).
C3_InverseRoundTrip ==
    /\ Called("inverse") /\ NonZeroMagnitude(RecvOf)
          => Fields(Multiply(RecvOf, Result)) = IdentityFields
    /\ Called("Quaternion.Divide") /\ last.args[1] = last.args[2] /\ NonZeroMagnitude(ArgOf(1))
          => Fields(Result) = IdentityFields

\* A call Quaternion.Divide(q, q) on a q of non-zero magnitude with w = 0.
C3_Witness ==
    /\ Called("Quaternion.Divide") /\ last.args[1] = last.args[2]
    /\ NonZeroMagnitude(ArgOf(1)) /\ IsZero(ArgOf(1).w)
    /\ Fields(Result) # IdentityFields

\* What the constructor is said to leave in a field: the argument when it
\* is a non-zero number, the default when it is omitted or zero.
NonZeroOrDefault(arg, default) ==
    IF arg # Undefined /\ ~IsZero(arg) THEN arg ELSE default

\* The same with NaN, which is a number and not zero, left out as well.
TruthyOrDefault(arg, default) ==
    IF arg # Undefined /\ ~IsZero(arg) /\ ~IsNaN(arg) THEN arg ELSE default

\* new Quaternion(0, 1, 0, 0) has w = 1 and new Quaternion() is (0,0,0,1).
ConstructorExamples ==
    /\ last.nums = <<Zero, One, Zero, Zero>> => Fields(Result) = <<Zero, One, Zero, One>>
    /\ last.nums = <<Undefined, Undefined, Undefined, Undefined>>
          => Fields(Result) = IdentityFields

Mutators == {"Add", "Subtract", "Multiply", "Divide"}

\* The static operation a mutating instance method is named after.
StaticOf(op, lhs, rhs) ==
    CASE op = "Add"      -> Add(lhs, rhs)
      [] op = "Subtract" -> Subtract(lhs, rhs)
      [] op = "Multiply" -> Multiply(lhs, rhs)
      [] op = "Divide"   -> Divide(lhs, rhs)

\* C5: after q.Add(other), q.Subtract(other), q.Multiply(other) or
\* q.Divide(other), other an object distinct from q, the four fields of q
\* are those of the static Add, Subtract, Multiply or Divide on (q0, other),
\* q0 being q before the call.
C5_InstanceAppliesStatic ==
    last.op \in Mutators /\ last.recv # last.args[1] =>
        Fields(heap[last.recv]) = Fields(StaticOf(last.op, RecvOf, ArgOf(1)))

\* q.Multiply(other) on distinct objects has left q different from
\* Quaternion.Multiply(q0, other), although no field of that product is 0.
C5_Witness ==
    /\ Called("Multiply") /\ last.recv # last.args[1]
    /\ Fields(Multiply(RecvOf, ArgOf(1))) = Hamilton(RecvOf, ArgOf(1))
    /\ Fields(heap[last.recv]) # Hamilton(RecvOf, ArgOf(1))

\* C6: frame condition.  The only object whose fields a call changes is
\* the receiver of a mutating instance method (Add, Subtract, Multiply,
\* Divide): every static operation and every getter leaves all objects as
\* they were, and a mutator leaves `other` as it was when other is not the
\* receiver.
C6_Frame ==
    \A i \in DOMAIN last.pre :
        heap[i] # last.pre[i] => last.op \in Mutators /\ last.recv = i

\* A mutator has changed its receiver and left a distinct `other` alone.
C6_Witness ==
    /\ last.op \in Mutators /\ last.recv # last.args[1]
    /\ heap[last.recv] # RecvOf
    /\ heap[last.args[1]] = ArgOf(1)

StaticQuaternionOps ==
    {"Quaternion.Euler", "Quaternion.Normalize", "Quaternion.ClampMagnitude",
     "Quaternion.RotateTowards", "Quaternion.Slerp", "Quaternion.SlerpUnclamped",
     "Quaternion.Add", "Quaternion.Subtract", "Quaternion.Multiply", "Quaternion.Divide"}

\* C7: every static operation that returns a Quaternion returns a new
\* object, never one of the objects passed to it.
C7_StaticReturnsNew ==
    last.op \in StaticQuaternionOps =>
        \A i \in DOMAIN last.args : last.ret # last.args[i]

\* Quaternion.Slerp(from, to, t) with t < 0 has returned the object from.
C7_Witness ==
    /\ Called("Quaternion.Slerp") /\ Lt(last.nums[1], Zero)
    /\ last.ret = last.args[1]

\* Quaternion.RotateTowards(from, to, d) has returned the object to.
C7_WitnessRotateTowards ==
    /\ Called("Quaternion.RotateTowards")
    /\ last.ret = last.args[2]

\* C8: Slerp endpoints.  For all quaternions a and b, Quaternion.Slerp(a,
\* b, 0) equals a and Quaternion.Slerp(a, b, 1) equals b, field by field.
C8_SlerpEndpoints ==
    Called("Quaternion.Slerp") =>
        /\ last.nums[1] = Zero => Fields(Result) = Fields(ArgOf(1))
        /\ last.nums[1] = One  => Fields(Result) = Fields(ArgOf(2))

NegFields(q) == <<Neg(q.x), Neg(q.y), Neg(q.z), Neg(q.w)>>

\* Quaternion.Slerp(a, b, 1) on unit a and b without a zero field in w,
\* Dot(a, b) < 0, has returned -b.
C8_Witness ==
    /\ Called("Quaternion.Slerp") /\ last.nums[1] = One
    /\ IsUnit(ArgOf(1)) /\ IsUnit(ArgOf(2))
    /\ ~IsZero(ArgOf(1).w) /\ ~IsZero(ArgOf(2).w)
    /\ Lt(Dot(ArgOf(1), ArgOf(2)), Zero)
    /\ Fields(Result) = NegFields(ArgOf(2))

\* The calls that return what DoSlerp returns.
CalledDoSlerp ==
    \/ Called("Quaternion.SlerpUnclamped")
    \/ Called("Quaternion.Slerp") /\ ~Lt(last.nums[1], Zero) /\ ~Gt(last.nums[1], One)

\* C9: for all unit quaternions from and to and every t, the quaternion
\* DoSlerp returns is a unit quaternion: x^2 + y^2 + z^2 + w^2 = 1.
C9_SlerpIsUnit ==
    CalledDoSlerp /\ IsUnit(ArgOf(1)) /\ IsUnit(ArgOf(2)) => IsUnit(Result)

\* DoSlerp on unit from and to has returned a quaternion that is not unit.
C9_Witness ==
    /\ CalledDoSlerp /\ IsUnit(ArgOf(1)) /\ IsUnit(ArgOf(2))
    /\ Rational(Result) /\ ~IsUnit(Result)

\* The quaternion -q as an object: all four fields of q negated.
Negated(q) == Obj(0, Neg(q.x), Neg(q.y), Neg(q.z), Neg(q.w))

EqualUpToSign(p, q) == Fields(p) = Fields(q) \/ Fields(p) = NegFields(q)

\* C10: shortest path.  For all unit quaternions a and b, Quaternion.Slerp(a,
\* b, 0.5) equals Quaternion.Slerp(a, -b, 0.5) up to sign, whatever Dot(a, b)
\* is, 0 included.
C10_ShortestPath ==
    Called("Quaternion.Slerp") /\ last.nums[1] = Rat(1, 2)
        /\ IsUnit(ArgOf(1)) /\ IsUnit(ArgOf(2)) =>
            EqualUpToSign(Result, Slerp(ArgOf(1), Negated(ArgOf(2)), Rat(1, 2)))

\* Quaternion.Slerp(a, b, 0.5) on unit a and b, Dot(a, b) # 0, differs from
\* Quaternion.Slerp(a, -b, 0.5) by more than the sign.
C10_Witness ==
    /\ Called("Quaternion.Slerp") /\ last.nums[1] = Rat(1, 2)
    /\ IsUnit(ArgOf(1)) /\ IsUnit(ArgOf(2))
    /\ ~IsZero(Dot(ArgOf(1), ArgOf(2)))
    /\ ~EqualUpToSign(Result, Slerp(ArgOf(1), Negated(ArgOf(2)), Rat(1, 2)))

\* The same at Dot(a, b) = 0, on a and b without a zero in w.
C10_WitnessZeroDot ==
    /\ Called("Quaternion.Slerp") /\ last.nums[1] = Rat(1, 2)
    /\ IsUnit(ArgOf(1)) /\ IsUnit(ArgOf(2))
    /\ ~IsZero(ArgOf(1).w) /\ ~IsZero(ArgOf(2).w)
    /\ IsZero(Dot(ArgOf(1), ArgOf(2)))
    /\ ~EqualUpToSign(Result, Slerp(ArgOf(1), Negated(ArgOf(2)), Rat(1, 2)))

\* C11: Quaternion.Slerp(from, to, t) returns from when t < 0 and to when
\* t > 1, and for 0 <= t <= 1 the value Quaternion.SlerpUnclamped(from, to,
\* t) returns.
C11_SlerpClamps ==
    Called("Quaternion.Slerp") =>
        /\ Lt(last.nums[1], Zero) => Fields(Result) = Fields(ArgOf(1))
        /\ Gt(last.nums[1], One)  => Fields(Result) = Fields(ArgOf(2))
        /\ ~Lt(last.nums[1], Zero) /\ ~Gt(last.nums[1], One) =>
              Fields(Result) = Fields(SlerpUnclamped(ArgOf(1), ArgOf(2), last.nums[1]))

\* Quaternion.Slerp(from, to, t) with t > 1 has returned to, where
\* interpolating at t = 1 would have returned something else.
C11_Witness ==
    /\ Called("Quaternion.Slerp") /\ Gt(last.nums[1], One)
    /\ Fields(Result) = Fields(ArgOf(2))
    /\ Fields(ArgOf(2)) # Fields(SlerpUnclamped(ArgOf(1), ArgOf(2), One))

\* C12: for every quaternion q = (x, y, z, w), w = 0 included, q.conjugate
\* is (-x, -y, -z, w).
C12_Conjugate ==
    Called("conjugate") =>
        Fields(Result) = <<Neg(RecvOf.x), Neg(RecvOf.y), Neg(RecvOf.z), RecvOf.w>>

\* q.conjugate on a q with w = 0 has returned a quaternion with w = 1.
C12_Witness ==
    /\ Called("conjugate") /\ IsZero(RecvOf.w)
    /\ Result.w = One

\* C13: the static Quaternion.Add(lhs, rhs) and Quaternion.Subtract(lhs,
\* rhs) are component-wise: each field of the result is the sum
\* (difference) of that field of lhs and rhs, also when it is 0.
C13_AddSubtractComponentwise ==
    /\ Called("Quaternion.Add") =>
          Fields(Result) = << Plus(ArgOf(1).x, ArgOf(2).x), Plus(ArgOf(1).y, ArgOf(2).y),
                              Plus(ArgOf(1).z, ArgOf(2).z), Plus(ArgOf(1).w, ArgOf(2).w) >>
    /\ Called("Quaternion.Subtract") =>
          Fields(Result) = << Minus(ArgOf(1).x, ArgOf(2).x), Minus(ArgOf(1).y, ArgOf(2).y),
                              Minus(ArgOf(1).z, ArgOf(2).z), Minus(ArgOf(1).w, ArgOf(2).w) >>

\* Quaternion.Add(lhs, rhs) with lhs.w + rhs.w = 0 and lhs.w # 0 has
\* returned a quaternion with w = 1.
C13_Witness ==
    /\ Called("Quaternion.Add")
    /\ ~IsZero(ArgOf(1).w) /\ IsZero(Plus(ArgOf(1).w, ArgOf(2).w))
    /\ Result.w = One

\* q divided field by field by its magnitude.
OverMagnitude(q) ==
    << Over(q.x, magnitude(q)), Over(q.y, magnitude(q)),
       Over(q.z, magnitude(q)), Over(q.w, magnitude(q)) >>

CalledNormalized == Called("normalized") \/ Called("Quaternion.Normalize")
\* The quaternion the latest call of normalized or Normalize was made on.
NormalizedOf == IF Called("normalized") THEN RecvOf ELSE ArgOf(1)

\* C14: for every quaternion q of non-zero magnitude, q.normalized and
\* Quaternion.Normalize(q) are q divided field by field by its magnitude,
\* and have squared magnitude 1.
C14_Normalized ==
    CalledNormalized /\ NonZeroMagnitude(NormalizedOf) =>
        /\ Fields(Result) = OverMagnitude(NormalizedOf)
        /\ IsUnit(Result)

\* q.normalized on a q of non-zero magnitude has returned a quaternion
\* that is not unit.
C14_Witness ==
    /\ Called("normalized") /\ NonZeroMagnitude(RecvOf)
    /\ ~IsUnit(Result)

\* C15: normalization is idempotent: for every quaternion q, w = 0 and the
\* zero quaternion included, q.normalized.normalized equals q.normalized
\* field by field.
C15_NormalizedIdempotent ==
    Called("normalized") => Fields(normalized(Result)) = Fields(Result)

\* q.normalized.normalized differs from q.normalized on a q with w = 0.
C15_Witness ==
    /\ Called("normalized") /\ IsZero(RecvOf.w) /\ NonZeroMagnitude(RecvOf)
    /\ Fields(normalized(Result)) # Fields(Result)

\* For the zero quaternion the two agree: both are the identity.
C15_WitnessZero ==
    /\ Called("normalized") /\ ~NonZeroMagnitude(RecvOf)
    /\ Fields(normalized(Result)) = IdentityFields
    /\ Fields(Result) = IdentityFields

\* The factor min(1, maxLength / |q|).
ClampFactor(q, maxLength) == Min(One, Over(maxLength, magnitude(q)))

Scaled(q, k) == <<Times(q.x, k), Times(q.y, k), Times(q.z, k), Times(q.w, k)>>

\* C16: Quaternion.ClampMagnitude(q, maxLength) scales q uniformly by
\* min(1, maxLength / |q|): every field of the result is that field of q
\* times the factor, for all q and maxLength; ClampMagnitude((3,0,0,4), 1)
\* is (0.6, 0, 0, 0.8).
C16_ClampMagnitudeScales ==
    Called("Quaternion.ClampMagnitude") =>
        Fields(Result) = Scaled(ArgOf(1), ClampFactor(ArgOf(1), last.nums[1]))

\* Quaternion.ClampMagnitude(q, maxLength) on a q with w = 0, x # 0 and a
\* maxLength > 0 has returned a quaternion with w = 1.
C16_Witness ==
    /\ Called("Quaternion.ClampMagnitude")
    /\ IsZero(ArgOf(1).w) /\ ~IsZero(ArgOf(1).x) /\ Gt(last.nums[1], Zero)
    /\ Result.w = One

\* Quaternion.ClampMagnitude((3,0,0,4), 1) has returned (3/5, 0, 0, 4/5).
C16_WitnessExample ==
    /\ Called("Quaternion.ClampMagnitude")
    /\ Fields(ArgOf(1)) = <<Int2Num(3), Zero, Zero, Int2Num(4)>> /\ last.nums[1] = One
    /\ Fields(Result) = <<Rat(3, 5), Zero, Zero, Rat(4, 5)>>

\* The point passed to the latest call of RotatePoint.
PointOf == [x |-> last.nums[1], y |-> last.nums[2], z |-> last.nums[3]]
SqrLength(v) == Plus(Plus(Sq(v.x), Sq(v.y)), Sq(v.z))

\* C17: RotatePoint preserves length.  For every unit quaternion rotation
\* and every point p, r = Quaternion.RotatePoint(rotation, p) has
\* r.x^2 + r.y^2 + r.z^2 = p.x^2 + p.y^2 + p.z^2, and
\* RotatePoint(Quaternion.identity, p) is p.
C17_RotatePointPreservesLength ==
    Called("Quaternion.RotatePoint") =>
        /\ IsUnit(ArgOf(1)) => SqrLength(last.val) = SqrLength(PointOf)
        /\ Fields(ArgOf(1)) = IdentityFields => last.val = PointOf

\* Quaternion.RotatePoint has moved a point, by a unit rotation, to a
\* point of the same length.
C17_Witness ==
    /\ Called("Quaternion.RotatePoint") /\ IsUnit(ArgOf(1))
    /\ last.val # PointOf
    /\ SqrLength(last.val) = SqrLength(PointOf) /\ ~IsZero(SqrLength(PointOf))

Points == {[x |-> x, y |-> y, z |-> z] : x, y, z \in Coords}

\* C18: Multiply composes rotations right to left.  For all unit
\* quaternions lhs and rhs and every point p,
\* RotatePoint(Multiply(lhs, rhs), p) = RotatePoint(lhs, RotatePoint(rhs, p)).
C18_MultiplyComposes ==
    Called("Quaternion.Multiply") /\ IsUnit(ArgOf(1)) /\ IsUnit(ArgOf(2)) =>
        \A p \in Points :
            RotatePoint(Result, p) = RotatePoint(ArgOf(1), RotatePoint(ArgOf(2), p))

\* Quaternion.Multiply on unit lhs and rhs, neither with w = 0, has
\* returned a quaternion that does not rotate some point as rhs and then
\* lhs do.
C18_Witness ==
    /\ Called("Quaternion.Multiply") /\ IsUnit(ArgOf(1)) /\ IsUnit(ArgOf(2))
    /\ ~IsZero(ArgOf(1).w) /\ ~IsZero(ArgOf(2).w)
    /\ \E p \in Points :
          RotatePoint(Result, p) # RotatePoint(ArgOf(1), RotatePoint(ArgOf(2), p))

\* C19: for every quaternion q, q.sqrMagnitude is the squared length of q:
\* x^2 + y^2 + z^2 + w^2 = Quaternion.Dot(q, q) = q.magnitude squared.
C19_SqrMagnitude ==
    Called("sqrMagnitude") =>
        /\ last.val = Dot(RecvOf, RecvOf)
        /\ last.val = Sq(magnitude(RecvOf))

\* q.sqrMagnitude on q = (0, 0, 0, 2) has returned the square root of 2.
C19_Witness ==
    /\ Called("sqrMagnitude")
    /\ Fields(RecvOf) = <<Zero, Zero, Zero, Two>>
    /\ last.val = Sqrt(Two)

\* Quaternion.Slerp(Quaternion.identity, new Quaternion(0, 0, 1, 0), 0.5)
CalledScenario ==
    /\ Called("Quaternion.Slerp") /\ last.nums[1] = Rat(1, 2)
    /\ Fields(ArgOf(1)) = Fields(identity)
    /\ Fields(ArgOf(2)) = Fields(Quaternion(Zero, Zero, One, Zero))

\* C20: Quaternion.Slerp(Quaternion.identity, new Quaternion(0, 0, 1, 0),
\* 0.5) returns a unit quaternion r at 90 degrees of arc from both
\* endpoints: Dot(r, identity) = 0 and Dot(r, the normalized second
\* argument) = 0.
C20_SlerpScenario ==
    CalledScenario =>
        /\ IsUnit(Result)
        /\ IsZero(Dot(Result, identity))
        /\ IsZero(Dot(Result, normalized(ArgOf(2))))

\* The scenario's call has returned (0, 0, sqrt(5)/5, 2*sqrt(5)/5).
C20_Witness ==
    /\ CalledScenario
    /\ Fields(Result) = <<Zero, Zero, Over(One, Sqrt(Int2Num(5))), Over(Two, Sqrt(Int2Num(5)))>>

IsZeroQuaternion(q) == Fields(q) = <<Zero, Zero, Zero, Zero>>
HasNaNOrInfinity(q) == \E f \in {q.x, q.y, q.z, q.w} : IsNaN(f) \/ IsInf(f)

\* C21: zero magnitude.  The zero quaternion (0,0,0,0) arises from
\* q.Subtract of an equal quaternion; on it q.normalized returns the
\* identity (0,0,0,1), while q.inverse returns a quaternion with a NaN or
\* Infinity field.
C21_ZeroMagnitude ==
    /\ Called("Subtract") /\ Fields(RecvOf) = Fields(ArgOf(1))
          /\ Rational(RecvOf) => IsZeroQuaternion(heap[last.recv])
    /\ Called("normalized") /\ IsZeroQuaternion(RecvOf)
          => Fields(Result) = IdentityFields
    /\ Called("inverse") /\ IsZeroQuaternion(RecvOf)
          => HasNaNOrInfinity(Result)

\* q.inverse on the zero quaternion has returned (0, 0, 0, Infinity).
C21_Witness ==
    /\ Called("inverse") /\ IsZeroQuaternion(RecvOf)
    /\ Fields(Result) = <<Zero, Zero, Zero, PosInf>>

\* q.normalized on the zero quaternion has returned the identity.
C21_WitnessNormalized ==
    /\ Called("normalized") /\ IsZeroQuaternion(RecvOf)
    /\ Fields(Result) = IdentityFields

\* C22: in the eulerAngles getter the pitch term t2 = 2*(w*y - z*x) is in
\* [-1, 1] when Math.asin is applied to it, for every quaternion, so that
\* the pitch angle is never NaN.
C22_PitchClamped ==
    Called("eulerAngles") =>
        /\ ~Gt(eulerPitchTerm(RecvOf), One)
        /\ ~Lt(eulerPitchTerm(RecvOf), Int2Num(-1))
        /\ last.val.y # NaNAngle

\* q.eulerAngles on q = (1, 2, 3, 4) has passed 11 to Math.asin and
\* returned NaN for the pitch.
C22_Witness ==
    /\ Called("eulerAngles")
    /\ Fields(RecvOf) = <<One, Int2Num(2), Int2Num(3), Int2Num(4)>>
    /\ eulerPitchTerm(RecvOf) = Int2Num(11)
    /\ last.val.y = NaNAngle

\* The most statements a call still has to execute when it is at pc: the
\* statements on the longest path from pc to a return.
StatementsLeft(pc) ==
    CASE pc = ""    -> 0
      [] pc = "583" -> 1
      [] pc = "575" -> 2
      [] pc = "571" -> 3
      [] pc = "558" -> 4
      [] pc = "552" -> 5
      [] pc = "548" -> 6
      [] pc = "536" -> 7
      [] pc = "599" -> 7
      [] pc = "534" -> 8
      [] pc = "522" -> 8
      [] pc = "533" -> 9
      [] pc = "521" -> 9
      [] pc = "520" -> 10

\* C23: every call of Slerp, SlerpUnclamped and RotateTowards terminates,
\* for every t: each statement a call executes leaves it with fewer
\* statements to execute, so that no statement is executed twice and the
\* number of statements executed does not depend on t.
C23_SlerpTerminates ==
    [][frame # NoFrame => StatementsLeft(frame'.pc) < StatementsLeft(frame.pc)]_vars

\* A call of SlerpUnclamped with t > 1 has gone through DoSlerp to its last
\* statement and returned a new object.
C23_Witness ==
    /\ frame = NoFrame
    /\ Called("Quaternion.SlerpUnclamped") /\ Gt(last.nums[1], One)
    /\ last.ret \notin DOMAIN last.pre

NoNaNField(q) == ~IsNaN(q.x) /\ ~IsNaN(q.y) /\ ~IsNaN(q.z) /\ ~IsNaN(q.w)
FiniteFields(q) == IsFin(q.x) /\ IsFin(q.y) /\ IsFin(q.z) /\ IsFin(q.w)
\* The value DoSlerp passes to Math.acos at line 571 is in [0, 0.9995].
AcosInDomain ==
    /\ ~IsNaN(frame.dot)
    /\ ~Lt(frame.dot, Zero)
    /\ ~Gt(frame.dot, DOT_THRESHOLD)

ReturnedNew == last.ret # 0 /\ last.ret \notin DOMAIN last.pre

\* x^2 + y^2 + z^2 + w^2 > 0 for a q without NaN field: the squares are not
\* negative, so the sum is positive exactly if some field is not 0.
PositiveSqrLength(q) ==
    NoNaNField(q) /\ \E f \in {q.x, q.y, q.z, q.w} : ~IsZero(f)

C24_WitnessMutated ==
    /\ Called("Subtract")
    /\ ~IsZero(RecvOf.w) /\ IsZero(heap[last.recv].w)

\* C26: for every q and every maxLength >= 0 with |q| > maxLength, the
\* magnitude of Quaternion.ClampMagnitude(q, maxLength) is at most
\* maxLength, maxLength = 0 and q with w = 0 included.
C26_ClampMagnitudeBound ==
    /\ Called("Quaternion.ClampMagnitude")
    /\ ~Lt(last.nums[1], Zero)
    /\ Gt(magnitude(ArgOf(1)), last.nums[1])
    => ~Gt(magnitude(Result), last.nums[1])

\* Quaternion.ClampMagnitude((3,0,0,4), 0) has returned (0,0,0,1), of
\* magnitude 1.
C26_Witness ==
    /\ Called("Quaternion.ClampMagnitude")
    /\ Fields(ArgOf(1)) = <<Int2Num(3), Zero, Zero, Int2Num(4)>> /\ last.nums[1] = Zero
    /\ Fields(Result) = IdentityFields
    /\ magnitude(Result) = One

\* C27: after any sequence of reads of Quaternion.identity, mutating
\* instance calls and field writes on the objects those reads returned,
\* each new read of Quaternion.identity returns an object distinct from
\* every earlier one, with fields (0,0,0,1).
C27_IdentityFresh ==
    Called("Quaternion.identity") =>
        /\ last.ret \notin DOMAIN last.pre
        /\ Fields(Result) = IdentityFields

\* Quaternion.identity has been read after an object that an earlier read
\* returned was changed, and has returned a new object (0,0,0,1).
C27_Witness ==
    /\ Called("Quaternion.identity")
    /\ \E i \in DOMAIN last.pre : Fields(last.pre[i]) # IdentityFields
    /\ last.ret \notin DOMAIN last.pre
    /\ Fields(Result) = IdentityFields

=============================================================================
